---- MODULE Spec2Model ----
(***************************************************************************)
(* Resilience layer of BarrierefreiCheck: the circuit breaker and the      *)
(* retry decorator of app/services/resilience.py, the retrying functions   *)
(* of app/utils/retry.py, and the cache service of app/services/cache.py.  *)
(***************************************************************************)
EXTENDS Integers, Sequences, FiniteSets, TLC

\* ------------------------------------------------------------------ bounds
\* Number of concurrent callers of the async wrapper.
NumCallers == 2
\* Largest failure_threshold a breaker is constructed with.
MaxThreshold == 2
\* Largest recovery_timeout (in clock ticks) a breaker is constructed with.
MaxRecovery == 2
\* Last value of the clock time.time().
MaxTime == 3
\* Total number of attempts admitted past the breaker check (wrapped
\* operations invoked, cache function bodies entered).
MaxCalls == 4
\* Largest max_retries retry_with_backoff is configured with.
MaxRetries == 3
\* Largest TTL (in seconds) a caller passes to a cache write.
MaxTtl == 6

\* ------------------------------------------------------- breaker: the state
VARIABLES
    state,               \* CircuitBreaker._state
    failure_count,       \* CircuitBreaker._failure_count
    last_failure_time,   \* CircuitBreaker._last_failure_time
    failure_threshold,   \* CircuitBreaker.failure_threshold
    recovery_timeout,    \* CircuitBreaker.recovery_timeout
    now,                 \* time.time()
    pc,                  \* per caller of the async wrapper: "idle" | "running"
    call_count,          \* admitted attempts: entries into the try block of a wrapper or cache function
    cache_pc,            \* the thread inside a cache function: "idle" | "get_time" | "set_time"
    trial,               \* per caller in flight: "no" | "opened" (it moved Open to HalfOpen) | "joined" (admitted in HalfOpen)
    streak,              \* wrapper failures recorded in a row since Closed with count 0 (-1: none such)
    last                 \* the last operation on the breaker and the state it found

bvars == <<state, failure_count, last_failure_time, failure_threshold,
           recovery_timeout, now, pc, call_count, cache_pc, trial,
           streak, last>>

CLOSED == "closed"
OPEN == "open"
HALF_OPEN == "half_open"
CircuitState == {CLOSED, OPEN, HALF_OPEN}

\* Optional[float] = None
None == -1

Callers == 1..NumCallers

\* What a wrapped operation can do: return, raise an error of the dependency
\* being down, raise a permanent error (bad data, constraint, auth), or raise
\* a BaseException that is no Exception (asyncio.CancelledError).
Outcomes == {"ok", "transient", "permanent", "cancelled"}

\* expected_exceptions=(Exception,): the default and all five configured breakers.
expected_exceptions == {"transient", "permanent"}

\* Python truthiness of _last_failure_time: None and 0.0 are false.
Truthy(t) == t # None /\ t # 0

\* Mutant of TimedOut: the timeout is taken to have passed one tick early.
TimedOut_EarlyByOne ==
    Truthy(last_failure_time) /\ now - last_failure_time >= recovery_timeout - 1

TimedOut == Truthy(last_failure_time) /\ now - last_failure_time >= recovery_timeout

\* ------------------------------------------- breaker: the pure state updates
\* _should_allow_request: the value returned.
ShouldAllowRequest ==
    \/ state = CLOSED
    \/ state = OPEN /\ TimedOut
    \/ state = HALF_OPEN

\* _should_allow_request: the state it leaves.
StateAfterAllow == IF state = OPEN /\ TimedOut THEN HALF_OPEN ELSE state

\* _record_success: the state it leaves.
SuccessState(s) == IF s = HALF_OPEN THEN CLOSED ELSE s

\* Mutant of FailureState: the threshold compared with > instead of >=.
FailureState_StrictThreshold(s, n) ==
    IF s = HALF_OPEN THEN OPEN
    ELSE IF n > failure_threshold THEN OPEN
    ELSE s

\* _record_failure: the state it leaves, given the incremented count.
FailureState(s, n) ==
    IF s = HALF_OPEN THEN OPEN
    ELSE IF n >= failure_threshold THEN OPEN
    ELSE s

\* Mutant of RecordSuccess: the count is not reset.
RecordSuccess_KeepsCount ==
    /\ state' = SuccessState(state)
    /\ UNCHANGED <<failure_count, last_failure_time>>

\* _record_success
RecordSuccess ==
    /\ failure_count' = 0
    /\ state' = SuccessState(state)
    /\ UNCHANGED last_failure_time

\* _record_failure
RecordFailure ==
    /\ failure_count' = failure_count + 1
    /\ last_failure_time' = now
    /\ state' = FailureState(state, failure_count + 1)

\* The ghost record of an operation on the breaker.
Note(op) == [op |-> op, st |-> state, fc |-> failure_count]

\* The run of consecutive wrapper failures after an operation other than a
\* wrapper failure changed the breaker to (s, n).
Restart(s, n) == IF s = CLOSED /\ n = 0 THEN 0 ELSE -1

ConfigUnchanged == UNCHANGED <<failure_threshold, recovery_timeout>>

\* ---------------------------------------------------------- breaker: Init
BreakerInit ==
    /\ state = CLOSED
    /\ failure_count = 0
    /\ last_failure_time = None
    /\ failure_threshold \in 1..MaxThreshold
    /\ recovery_timeout \in 1..MaxRecovery
    /\ now = 1
    /\ pc = [p \in Callers |-> "idle"]
    /\ call_count = 0
    /\ cache_pc = "idle"
    /\ trial = [p \in Callers |-> "no"]
    /\ streak = 0
    /\ last = [op |-> "init", st |-> CLOSED, fc |-> 0]

\* ------------------------------------------------------- breaker: actions
\* The clock advances.
Tick ==
    /\ now < MaxTime
    /\ now' = now + 1
    /\ UNCHANGED <<state, failure_count, last_failure_time, pc, call_count,
                   cache_pc, trial, streak, last>>
    /\ ConfigUnchanged

\* CircuitBreaker.__call__.wrapper up to the first suspension of func: the
\* admission check, then either CircuitBreakerError or the operation starts.
WrapperCall(p) ==
    /\ pc[p] = "idle"
    /\ IF ShouldAllowRequest
       THEN /\ call_count < MaxCalls
            /\ state' = StateAfterAllow
            /\ pc' = [pc EXCEPT ![p] = "running"]
            /\ call_count' = call_count + 1
            /\ trial' = [trial EXCEPT ![p] =
                    IF state = HALF_OPEN THEN "joined"
                    ELSE IF StateAfterAllow = HALF_OPEN THEN "opened"
                    ELSE "no"]
            /\ last' = Note("admit")
       ELSE /\ last' = Note("reject")
            /\ UNCHANGED <<state, pc, call_count, trial>>
    /\ UNCHANGED <<failure_count, last_failure_time, now, cache_pc, streak>>
    /\ ConfigUnchanged

\* CircuitBreaker.__call__.wrapper from the completion of func: the outcome is
\* recorded (or not, for an exception outside expected_exceptions) and
\* delivered to the caller.
WrapperFinish(p, o) ==
    /\ pc[p] = "running"
    /\ pc' = [pc EXCEPT ![p] = "idle"]
    /\ trial' = [trial EXCEPT ![p] = "no"]
    /\ IF o = "ok"
       THEN /\ RecordSuccess
            /\ streak' = Restart(state', failure_count')
            /\ last' = Note("success")
       ELSE IF o \in expected_exceptions
       THEN /\ RecordFailure
            /\ streak' = IF streak >= 0 THEN streak + 1 ELSE -1
            /\ last' = Note("failure")
       ELSE /\ last' = Note("unrecorded")
            /\ UNCHANGED <<state, failure_count, last_failure_time, streak>>
    /\ UNCHANGED <<now, call_count, cache_pc>>
    /\ ConfigUnchanged

\* Mutant of Reset: _last_failure_time is not cleared.
Reset_KeepsTime ==
    /\ state' = CLOSED
    /\ failure_count' = 0
    /\ streak' = Restart(state', failure_count')
    /\ last' = Note("reset")
    /\ UNCHANGED <<last_failure_time, now, pc, call_count, cache_pc, trial>>
    /\ ConfigUnchanged

\* CircuitBreaker.reset
Reset ==
    /\ state' = CLOSED
    /\ failure_count' = 0
    /\ last_failure_time' = None
    /\ streak' = Restart(state', failure_count')
    /\ last' = Note("reset")
    /\ UNCHANGED <<now, pc, call_count, cache_pc, trial>>
    /\ ConfigUnchanged

\* sync_with_circuit_breaker.wrapper: the state after its admission check.
SyncStateAfterCheck == IF state = OPEN /\ TimedOut THEN HALF_OPEN ELSE state

\* sync_with_circuit_breaker.wrapper: check, call and record, one synchronous
\* run. A rejected call changes nothing.
SyncCall(o) ==
    /\ IF state = OPEN /\ ~TimedOut
       THEN /\ last' = Note("sync_reject")
            /\ UNCHANGED <<state, failure_count, last_failure_time, call_count, streak>>
       ELSE /\ call_count < MaxCalls
            /\ call_count' = call_count + 1
            /\ IF o = "ok"
               THEN /\ failure_count' = 0
                    /\ state' = SuccessState(SyncStateAfterCheck)
                    /\ streak' = Restart(state', failure_count')
                    /\ last' = Note("sync_success")
                    /\ UNCHANGED last_failure_time
               ELSE IF o \in expected_exceptions
               THEN /\ failure_count' = failure_count + 1
                    /\ last_failure_time' = now
                    /\ state' = FailureState(SyncStateAfterCheck, failure_count + 1)
                    /\ streak' = -1
                    /\ last' = Note("sync_failure")
               ELSE /\ state' = SyncStateAfterCheck
                    /\ streak' = IF SyncStateAfterCheck = state THEN streak ELSE -1
                    /\ last' = Note("sync_unrecorded")
                    /\ UNCHANGED <<failure_count, last_failure_time>>
    /\ UNCHANGED <<now, pc, cache_pc, trial>>
    /\ ConfigUnchanged

\* What a store command of a cache function can do: no client (the connection
\* could not be made), success, a redis.RedisError, or an error of the payload
\* (json.JSONDecodeError on get, TypeError on set).
StoreOutcomes == {"no_client", "ok", "redis_error", "payload_error"}

\* The exceptions whose handler records a failure, per cache function.
\* cache_get: except redis.RedisError (JSONDecodeError is logged only).
GetRecorded == {"redis_error"}
\* cache_set: except (redis.RedisError, TypeError).
SetRecorded == {"redis_error", "payload_error"}

\* cache_get / cache_set, the failure handler up to the write of _state: the
\* count is incremented and at the threshold the state is set to "open"; the
\* write of _last_failure_time follows as a step of its own (CacheWriteTime).
CacheRecordFailure(next_pc) ==
    /\ failure_count' = failure_count + 1
    /\ IF failure_count + 1 >= failure_threshold
       THEN /\ state' = OPEN
            /\ cache_pc' = next_pc
       ELSE UNCHANGED <<state, cache_pc>>
    /\ streak' = -1
    /\ UNCHANGED last_failure_time

\* cache_get
CacheGet(o) ==
    /\ cache_pc = "idle"
    /\ last' = Note("cache_get")
    /\ IF state = OPEN \/ o = "no_client"
       THEN UNCHANGED <<state, failure_count, last_failure_time, call_count,
                        cache_pc, streak>>
       ELSE /\ call_count < MaxCalls
            /\ call_count' = call_count + 1
            /\ IF o \in GetRecorded
               THEN CacheRecordFailure("get_time")
               ELSE UNCHANGED <<state, failure_count, last_failure_time,
                                cache_pc, streak>>
    /\ UNCHANGED <<now, pc, trial>>
    /\ ConfigUnchanged

\* cache_set
CacheSet(o) ==
    /\ cache_pc = "idle"
    /\ last' = Note("cache_set")
    /\ IF state = OPEN \/ o = "no_client"
       THEN UNCHANGED <<state, failure_count, last_failure_time, call_count,
                        cache_pc, streak>>
       ELSE /\ call_count < MaxCalls
            /\ call_count' = call_count + 1
            /\ IF o \in SetRecorded
               THEN CacheRecordFailure("set_time")
               ELSE /\ failure_count' = 0
                    /\ streak' = Restart(state, failure_count')
                    /\ UNCHANGED <<state, last_failure_time, cache_pc>>
    /\ UNCHANGED <<now, pc, trial>>
    /\ ConfigUnchanged

\* cache_get / cache_set, the rest of the failure handler at the threshold:
\* _last_failure_time = time.time()
CacheWriteTime ==
    /\ cache_pc \in {"get_time", "set_time"}
    /\ last_failure_time' = now
    /\ cache_pc' = "idle"
    /\ last' = Note("cache_write_time")
    /\ UNCHANGED <<state, failure_count, now, pc, call_count, trial, streak>>
    /\ ConfigUnchanged

\* cache_delete: a store error is counted and nothing else. json has no part
\* in it: the store either deletes or raises redis.RedisError.
CacheDelete(o) ==
    /\ cache_pc = "idle"
    /\ o # "payload_error"
    /\ last' = Note("cache_delete")
    /\ IF state = OPEN \/ o = "no_client"
       THEN UNCHANGED <<failure_count, call_count, streak>>
       ELSE /\ call_count < MaxCalls
            /\ call_count' = call_count + 1
            /\ failure_count' = IF o = "ok" THEN 0 ELSE failure_count + 1
            /\ streak' = IF o = "ok" THEN Restart(state, failure_count') ELSE -1
    /\ UNCHANGED <<state, last_failure_time, now, pc, cache_pc, trial>>
    /\ ConfigUnchanged

\* ----------------------------------------------------- retry: the state
VARIABLES
    max_retries,         \* retry_with_backoff(max_retries=...)
    base_delay,          \* retry_with_backoff(base_delay=...)
    max_delay,           \* retry_with_backoff(max_delay=...)
    exponential_base,    \* retry_with_backoff(exponential_base=...)
    on_retry,            \* whether an on_retry callback was supplied
    r_pc,                \* the wrapper: "idle" | "ready" | "sleeping" | "done"
    attempt,             \* the loop variable
    last_exception,      \* the local last_exception
    invocations,         \* how often func was invoked
    outcomes,            \* what each invocation did
    retry_calls,         \* the attempt numbers passed to on_retry
    delays,              \* the delays slept
    r_result             \* what the caller received

rvars == <<max_retries, base_delay, max_delay, exponential_base, on_retry,
           r_pc, attempt, last_exception, invocations, outcomes, retry_calls,
           delays, r_result>>

\* The configurations checked.
BaseDelays == {1, 2}
ExponentialBases == {1, 2, 3}
MaxDelays == {3, 5}

\* What an invocation of func can do: return, raise an exception of the
\* configured tuple `exceptions`, or raise one outside it.
RetryOutcomes == {"ok", "retryable", "fatal"}

\* What the on_retry callback can do.
CallbackOutcomes == {"returns", "raises"}

NoError == [attempt |-> -1, kind |-> "none"]

\* The exception object raised by the invocation of loop index i.
ErrorOf(i, kind) == [attempt |-> i, kind |-> kind]

RECURSIVE Pow(_, _)
Pow(b, e) == IF e = 0 THEN 1 ELSE b * Pow(b, e - 1)

Min(a, b) == IF a <= b THEN a ELSE b

\* Mutant of BackoffDelay: the exponent is the 1-based attempt number.
BackoffDelay_NextExponent(i) ==
    Min(base_delay * Pow(exponential_base, i + 1), max_delay)

\* delay = min(base_delay * (exponential_base ** attempt), max_delay)
BackoffDelay(i) == Min(base_delay * Pow(exponential_base, i), max_delay)

\* Mutant of FinalError: the last error is wrapped in a new exception.
FinalError_Wrapped(e) == [attempt |-> e.attempt, kind |-> "wrapped"]

\* The bare `raise` of the last attempt: the exception being handled.
FinalError(e) == e

RetryConfigUnchanged ==
    UNCHANGED <<max_retries, base_delay, max_delay, exponential_base, on_retry>>

\* No retry-wrapped call is in progress.
RetryIdle ==
    /\ max_retries = 0
    /\ base_delay = 1
    /\ max_delay = 1
    /\ exponential_base = 1
    /\ on_retry = FALSE
    /\ r_pc = "idle"
    /\ attempt = 0
    /\ last_exception = NoError
    /\ invocations = 0
    /\ outcomes = <<>>
    /\ retry_calls = <<>>
    /\ delays = <<>>
    /\ r_result = [kind |-> "none"]

\* A call of a function decorated with retry_with_backoff(...) begins.
RetryInit ==
    /\ max_retries \in 0..MaxRetries
    /\ base_delay \in BaseDelays
    /\ max_delay \in MaxDelays
    /\ exponential_base \in ExponentialBases
    /\ on_retry \in BOOLEAN
    /\ r_pc = "ready"
    /\ attempt = 0
    /\ last_exception = NoError
    /\ invocations = 0
    /\ outcomes = <<>>
    /\ retry_calls = <<>>
    /\ delays = <<>>
    /\ r_result = [kind |-> "none"]

\* Mutant of RetryReturn: a returning attempt is followed by another one
\* while retries are left.
RetryReturn_Retries ==
    /\ r_pc = "ready"
    /\ invocations' = invocations + 1
    /\ outcomes' = Append(outcomes, "ok")
    /\ IF attempt < max_retries
       THEN r_pc' = "sleeping" /\ UNCHANGED r_result
       ELSE /\ r_result' = [kind |-> "returned", attempt |-> attempt]
            /\ r_pc' = "done"
    /\ UNCHANGED <<attempt, last_exception, retry_calls, delays>>
    /\ RetryConfigUnchanged

\* One pass of the loop body: func is invoked and returns.
RetryReturn ==
    /\ r_pc = "ready"
    /\ invocations' = invocations + 1
    /\ outcomes' = Append(outcomes, "ok")
    /\ r_result' = [kind |-> "returned", attempt |-> attempt]
    /\ r_pc' = "done"
    /\ UNCHANGED <<attempt, last_exception, retry_calls, delays>>
    /\ RetryConfigUnchanged

\* One pass of the loop body: func raises an exception outside `exceptions`,
\* which no handler of the wrapper catches.
RetryFatal ==
    /\ r_pc = "ready"
    /\ invocations' = invocations + 1
    /\ outcomes' = Append(outcomes, "fatal")
    /\ r_result' = [kind |-> "raised", error |-> ErrorOf(attempt, "fatal")]
    /\ r_pc' = "done"
    /\ UNCHANGED <<attempt, last_exception, retry_calls, delays>>
    /\ RetryConfigUnchanged

\* One pass of the loop body: func raises an exception of `exceptions`. On the
\* last attempt it is re-raised; before, on_retry is called (and may itself
\* raise, which leaves the wrapper) and the wrapper goes to sleep.
RetryFailure(cb) ==
    /\ r_pc = "ready"
    /\ invocations' = invocations + 1
    /\ outcomes' = Append(outcomes, "retryable")
    /\ last_exception' = ErrorOf(attempt, "retryable")
    /\ IF attempt = max_retries
       THEN /\ r_result' = [kind |-> "raised",
                            error |-> FinalError(ErrorOf(attempt, "retryable"))]
            /\ r_pc' = "done"
            /\ UNCHANGED retry_calls
       ELSE /\ retry_calls' = IF on_retry THEN Append(retry_calls, attempt + 1)
                              ELSE retry_calls
            /\ IF on_retry /\ cb = "raises"
               THEN /\ r_result' = [kind |-> "raised",
                                    error |-> ErrorOf(attempt, "callback")]
                    /\ r_pc' = "done"
               ELSE /\ r_pc' = "sleeping"
                    /\ UNCHANGED r_result
    /\ UNCHANGED <<attempt, delays>>
    /\ RetryConfigUnchanged

\* await asyncio.sleep(delay) returns and the loop goes to its next index.
RetryWake ==
    /\ r_pc = "sleeping"
    /\ delays' = Append(delays, BackoffDelay(attempt))
    /\ attempt' = attempt + 1
    /\ r_pc' = "ready"
    /\ UNCHANGED <<last_exception, invocations, outcomes, retry_calls, r_result>>
    /\ RetryConfigUnchanged

\* ------------------------------------------- retry of database operations
VARIABLE
    variant              \* the retrying function that runs the loop

dvars == <<variant>>

\* The four retrying functions of utils/retry.py.
DbVariants == {"retry_on_db_error", "async_retry_on_db_error",
               "execute_with_retry", "async_execute_with_retry"}

\* RetryConfig(exponential_base=2.0): none of the four passes another one.
DefaultExponentialBase == 2

\* What func can raise: an OperationalError whose message holds one of the
\* transient patterns, an OperationalError whose message holds none, another
\* DBAPIError (InterfaceError, IntegrityError, ...), a builtin ConnectionError
\* or TimeoutError, and an exception of no listed class (ValueError, ...).
DbErrors == {"operational_connection", "operational_other", "dbapi_error",
             "connection_error", "value_error"}

OperationalError == {"operational_connection", "operational_other"}

\* The classes caught by `except config.exceptions`.
DB_TRANSIENT_EXCEPTIONS == {"operational_connection", "operational_other",
                            "dbapi_error", "connection_error"}

\* An OperationalError is transient when its message matches a pattern; any
\* other exception when it is an instance of DB_TRANSIENT_EXCEPTIONS.
is_transient_db_error(e) ==
    IF e \in OperationalError
    THEN e = "operational_connection"
    ELSE e \in DB_TRANSIENT_EXCEPTIONS

\* RetryConfig.get_delay
get_delay(i) ==
    LET delay == base_delay * Pow(exponential_base, i)
    IN  Min(delay, max_delay)

\* Mutant of AttemptRange: the loop has one more index.
AttemptRange_OneMore == 0..(max_retries + 1)

\* range(config.max_retries + 1)
AttemptRange == 0..max_retries

\* A call of one of the four functions begins.
DbRetryInit ==
    /\ variant \in DbVariants
    /\ max_retries \in 0..MaxRetries
    /\ base_delay \in BaseDelays
    /\ max_delay \in MaxDelays
    /\ exponential_base = DefaultExponentialBase
    /\ on_retry = FALSE
    /\ r_pc = "ready"
    /\ attempt = 0
    /\ last_exception = NoError
    /\ invocations = 0
    /\ outcomes = <<>>
    /\ retry_calls = <<>>
    /\ delays = <<>>
    /\ r_result = [kind |-> "none"]

\* One pass of the loop body: func (awaited by the async variants) returns.
DbReturn ==
    /\ variant \in DbVariants
    /\ r_pc = "ready"
    /\ invocations' = invocations + 1
    /\ outcomes' = Append(outcomes, "ok")
    /\ r_result' = [kind |-> "returned", attempt |-> attempt]
    /\ r_pc' = "done"
    /\ UNCHANGED <<attempt, last_exception, retry_calls, delays, variant>>
    /\ RetryConfigUnchanged

\* One pass of the loop body: func raises an error that is not retried, either
\* because no handler catches it or because the handler's bare `raise` follows
\* is_transient_db_error(e) = False.
DbRaise(e) ==
    /\ variant \in DbVariants
    /\ r_pc = "ready"
    /\ e \notin DB_TRANSIENT_EXCEPTIONS \/ ~is_transient_db_error(e)
    /\ invocations' = invocations + 1
    /\ outcomes' = Append(outcomes, e)
    /\ last_exception' = IF e \in DB_TRANSIENT_EXCEPTIONS
                         THEN ErrorOf(attempt, e) ELSE last_exception
    /\ r_result' = [kind |-> "raised", error |-> ErrorOf(attempt, e)]
    /\ r_pc' = "done"
    /\ UNCHANGED <<attempt, retry_calls, delays, variant>>
    /\ RetryConfigUnchanged

\* One pass of the loop body: func raises a transient error. Before the last
\* index the wrapper sleeps; at the last index the loop ends and
\* `raise last_exception` follows.
DbTransient(e) ==
    /\ variant \in DbVariants
    /\ r_pc = "ready"
    /\ e \in DB_TRANSIENT_EXCEPTIONS /\ is_transient_db_error(e)
    /\ invocations' = invocations + 1
    /\ outcomes' = Append(outcomes, e)
    /\ last_exception' = ErrorOf(attempt, e)
    /\ IF attempt < max_retries
       THEN /\ r_pc' = "sleeping"
            /\ UNCHANGED <<attempt, r_result>>
       ELSE IF attempt + 1 \in AttemptRange
       THEN /\ r_pc' = "ready"
            /\ attempt' = attempt + 1
            /\ UNCHANGED r_result
       ELSE /\ r_pc' = "done"
            /\ r_result' = [kind |-> "raised", error |-> last_exception']
            /\ UNCHANGED attempt
    /\ UNCHANGED <<retry_calls, delays, variant>>
    /\ RetryConfigUnchanged

\* time.sleep(delay) / await asyncio.sleep(delay) returns and the loop goes to
\* its next index.
DbWake ==
    /\ variant \in DbVariants
    /\ r_pc = "sleeping"
    /\ delays' = Append(delays, get_delay(attempt))
    /\ attempt' = attempt + 1
    /\ r_pc' = "ready"
    /\ UNCHANGED <<last_exception, invocations, outcomes, retry_calls,
                   r_result, variant>>
    /\ RetryConfigUnchanged

\* ------------------------------------------------- cache service: the state
VARIABLES
    redis_client,        \* the global _redis_client: "none" | "client"
    entry,               \* per key: remaining TTL, TTL it was written with, writer
    meta,                \* per key: the "<key>:meta" entry, remaining TTL and value
    blacklist,           \* remaining TTL of the "token_blacklist:<token>" key
    c_last,              \* the last call of a cache function and what it did
    revalidating,        \* the set _revalidating of a cached_with_stale function
    tasks,               \* per key: refresh tasks scheduled and running
    sw_pc,               \* per caller of the decorated function: "idle" or the key it computes
    sw_last              \* the last call of the decorated function's wrapper

cvars == <<redis_client, entry, meta, blacklist, c_last>>
swvars == <<revalidating, tasks, sw_pc, sw_last>>

\* ------------------------------------------------ the callers: the state
VARIABLES
    token,               \* one access token: remaining lifetime (exp - now), the request it is used in, whether logout returned success for it
    fallback_value,      \* the fallback_value of with_circuit_breaker / sync_with_circuit_breaker
    delivered,           \* the last call through a fallback wrapper and what reached its caller
    threads,             \* per thread inside sync_with_circuit_breaker's failure handler: where it is and the _failure_count it read
    recorded             \* failures recorded since the last recorded success or reset

avars == <<token>>
fvars == <<fallback_value, delivered>>
tvars == <<threads, recorded>>
xvars == <<avars, fvars, tvars>>

vars == <<bvars, rvars, dvars, cvars, swvars, xvars>>

\* Cache keys built by the decorated function's wrapper.
Keys == {"stats:1", "stats:2"}

\* The TTLs callers pass to cache_set and cache_set_with_stale.
Ttls == {2, MaxTtl}

\* cache_set_with_stale keeps the meta key ttl_seconds + 60.
MetaGrace == 60

\* The arguments of cached_with_stale (300 and 60 by default), scaled down.
ttl_seconds == 2
stale_ttl_seconds == 2

\* redis.RedisError and its subclasses as redis-py raises them: a refused
\* connection (redis.ConnectionError), a socket timeout (redis.TimeoutError)
\* and an error reply (redis.ResponseError).
RedisError == {"connection_error", "timeout_error", "response_error"}
ConnectionError == {"connection_error"}

\* What creating and pinging a client can do, and what a command can do;
\* "payload_error" is json.dumps raising TypeError before the command is sent.
ClientOutcomes == {"ok"} \cup RedisError
CommandOutcomes == {"ok", "payload_error"} \cup RedisError

NoEntry == [ttl |-> 0, orig |-> 0, writer |-> "none"]
NoMeta == [ttl |-> 0, value |-> <<>>]
NoTasks == [scheduled |-> 0, running |-> 0]

Digits == <<"0", "1", "2", "3", "4", "5", "6", "7", "8", "9">>

\* str(ttl_seconds)
RECURSIVE str(_)
str(n) ==
    IF n < 10 THEN <<Digits[n + 1]>>
    ELSE Append(str(n \div 10), Digits[(n % 10) + 1])

DigitValue(d) == CHOOSE v \in 0..9 : Digits[v + 1] = d

\* int(original_ttl_str)
RECURSIVE int(_)
int(s) ==
    IF Len(s) = 1 THEN DigitValue(s[1])
    ELSE 10 * int(SubSeq(s, 1, Len(s) - 1)) + DigitValue(s[Len(s)])

\* get_redis_client(): the value of the global afterwards, whether the call
\* raised, and the store calls (ping) it made. A new client is assigned before
\* it is pinged and only redis.ConnectionError is handled.
get_redis_client(c) ==
    IF redis_client # "none"
    THEN [global |-> redis_client, raised |-> FALSE, pings |-> 0]
    ELSE IF c = "ok"
    THEN [global |-> "client", raised |-> FALSE, pings |-> 1]
    ELSE IF c \in ConnectionError
    THEN [global |-> "none", raised |-> FALSE, pings |-> 1]
    ELSE [global |-> "client", raised |-> TRUE, pings |-> 1]

\* How a cache function ended: turned away by the breaker check, by
\* get_redis_client raising, with no client, by json raising, by the command
\* raising, or with the store's answer.
How(checked, g, o) ==
    IF checked /\ state = OPEN THEN "rejected"
    ELSE IF g.raised THEN "client_raised"
    ELSE IF g.global = "none" THEN "no_client"
    ELSE IF o = "payload_error" THEN "payload_raised"
    ELSE IF o \in RedisError THEN "command_raised"
    ELSE "answered"

\* The store outcome as the breaker side of a cache function sees it.
Seen(how) ==
    CASE how = "answered" -> "ok"
      [] how = "command_raised" -> "redis_error"
      [] how = "payload_raised" -> "payload_error"
      [] OTHER -> "no_client"

\* Calls to the backing store made by a function that ended as `how` and
\* sends n commands when the store answers.
StoreCalls(how, g, n) ==
    CASE how = "rejected" -> 0
      [] how = "answered" -> g.pings + n
      [] how = "command_raised" -> g.pings + 1
      [] OTHER -> g.pings

ClientAfter(how, g) == IF how = "rejected" THEN redis_client ELSE g.global

Outcome(op, how, result, calls) ==
    [op |-> op, how |-> how, result |-> result, open |-> state = OPEN,
     store_calls |-> calls, fail_closed |-> FALSE, found |-> FALSE,
     stale |-> FALSE, seen |-> NoEntry]

\* The value a function returns: on the store's answer `answer`, on a
\* handled failure `failed`; an unhandled exception leaves the function.
Returned(how, answer, failed) ==
    CASE how = "answered" -> answer
      [] how = "client_raised" -> "raised"
      [] OTHER -> failed

CacheInit ==
    /\ redis_client = "none"
    /\ entry = [k \in Keys |-> NoEntry]
    /\ meta = [k \in Keys |-> NoMeta]
    /\ blacklist = 0
    /\ c_last = [op |-> "none", how |-> "none", result |-> "none",
                 open |-> FALSE, store_calls |-> 0, fail_closed |-> FALSE,
                 found |-> FALSE, stale |-> FALSE, seen |-> NoEntry]

StaleInit ==
    /\ revalidating = {}
    /\ tasks = [k \in Keys |-> NoTasks]
    /\ sw_pc = [p \in Callers |-> "idle"]
    /\ sw_last = [op |-> "none", key |-> "none", ttl |-> 0,
                  inflight |-> FALSE, scheduled |-> FALSE, open |-> FALSE,
                  caller |-> 0, returned |-> "none"]

\* -------------------------------------------- cache service: the functions
\* cache_get(key)
cache_get(k, c, o) ==
    LET g == get_redis_client(c)
        how == How(TRUE, g, o)
    IN  /\ o # "payload_error"
        /\ CacheGet(Seen(how))
        /\ redis_client' = ClientAfter(how, g)
        /\ c_last' = Outcome("cache_get", how,
                             Returned(how, IF entry[k].ttl > 0 THEN "value"
                                           ELSE "None", "None"),
                             StoreCalls(how, g, 1))
        /\ UNCHANGED <<entry, meta, blacklist>>

\* cache_set(key, value, ttl_seconds)
cache_set(k, t, c, o) ==
    LET g == get_redis_client(c)
        how == How(TRUE, g, o)
    IN  /\ CacheSet(Seen(how))
        /\ redis_client' = ClientAfter(how, g)
        /\ entry' = IF how = "answered"
                    THEN [entry EXCEPT ![k] = [ttl |-> t, orig |-> t,
                                               writer |-> "cache_set"]]
                    ELSE entry
        /\ c_last' = Outcome("cache_set", how,
                             Returned(how, "True", "False"),
                             StoreCalls(how, g, 1))
        /\ UNCHANGED <<meta, blacklist>>

\* cache_delete(key)
cache_delete(k, c, o) ==
    LET g == get_redis_client(c)
        how == How(TRUE, g, o)
    IN  /\ o # "payload_error"
        /\ CacheDelete(Seen(how))
        /\ redis_client' = ClientAfter(how, g)
        /\ entry' = IF how = "answered" THEN [entry EXCEPT ![k] = NoEntry]
                    ELSE entry
        /\ c_last' = Outcome("cache_delete", how,
                             Returned(how, "True", "False"),
                             StoreCalls(how, g, 1))
        /\ UNCHANGED <<meta, blacklist>>

\* cache_delete_pattern(pattern), the pattern matching every key of Keys and
\* its meta key: client.keys(pattern), then client.delete(*keys) if any.
cache_delete_pattern(c, o) ==
    LET g == get_redis_client(c)
        how == How(FALSE, g, o)
        any == \E k \in Keys : entry[k].ttl > 0 \/ meta[k].ttl > 0
    IN  /\ o # "payload_error"
        /\ redis_client' = ClientAfter(how, g)
        /\ entry' = IF how = "answered" THEN [k \in Keys |-> NoEntry]
                    ELSE entry
        /\ meta' = IF how = "answered" THEN [k \in Keys |-> NoMeta] ELSE meta
        /\ c_last' = Outcome("cache_delete_pattern", how,
                             Returned(how, IF any THEN "count" ELSE "0", "0"),
                             StoreCalls(how, g, IF any THEN 2 ELSE 1))
        /\ UNCHANGED blacklist
        /\ UNCHANGED bvars

\* cache_exists(key)
cache_exists(k, c, o) ==
    LET g == get_redis_client(c)
        how == How(FALSE, g, o)
    IN  /\ o # "payload_error"
        /\ redis_client' = ClientAfter(how, g)
        /\ c_last' = Outcome("cache_exists", how,
                             Returned(how, IF entry[k].ttl > 0 THEN "True"
                                           ELSE "False", "False"),
                             StoreCalls(how, g, 1))
        /\ UNCHANGED <<entry, meta, blacklist>>
        /\ UNCHANGED bvars

\* blacklist_token(token, ttl_seconds)
blacklist_token(t, c, o) ==
    LET g == get_redis_client(c)
        how == How(FALSE, g, o)
    IN  /\ o # "payload_error"
        /\ IF t <= 0
           THEN /\ c_last' = Outcome("blacklist_token", "expired", "True", 0)
                /\ UNCHANGED <<redis_client, blacklist>>
           ELSE /\ redis_client' = ClientAfter(how, g)
                /\ blacklist' = IF how = "answered" THEN t ELSE blacklist
                /\ c_last' = Outcome("blacklist_token", how,
                                     Returned(how, "True", "False"),
                                     StoreCalls(how, g, 1))
        /\ UNCHANGED <<entry, meta>>
        /\ UNCHANGED bvars

\* Mutant of BlacklistAnswer: a failed query is answered as "not blacklisted".
BlacklistAnswer_ErrorFailsOpen(how, fail_closed, found) ==
    CASE how = "answered" -> IF found THEN "True" ELSE "False"
      [] how = "no_client" -> IF fail_closed THEN "True" ELSE "False"
      [] how = "command_raised" -> "False"
      [] OTHER -> "raised"

\* What is_token_blacklisted returns: without a client and on a RedisError of
\* the query True if fail_closed and False otherwise; else exists(...) > 0.
BlacklistAnswer(how, fail_closed, found) ==
    CASE how = "answered" -> IF found THEN "True" ELSE "False"
      [] how = "no_client" -> IF fail_closed THEN "True" ELSE "False"
      [] how = "command_raised" -> IF fail_closed THEN "True" ELSE "False"
      [] OTHER -> "raised"

\* is_token_blacklisted(token, fail_closed)
is_token_blacklisted(fail_closed, c, o) ==
    LET g == get_redis_client(c)
        how == How(FALSE, g, o)
    IN  /\ o # "payload_error"
        /\ redis_client' = ClientAfter(how, g)
        /\ c_last' = [Outcome("is_token_blacklisted", how,
                              BlacklistAnswer(how, fail_closed, blacklist > 0),
                              StoreCalls(how, g, 1))
                      EXCEPT !.fail_closed = fail_closed,
                             !.found = blacklist > 0]
        /\ UNCHANGED <<entry, meta, blacklist>>
        /\ UNCHANGED bvars

\* is_stale of cache_get_with_stale: with a meta key, ttl > 0 and
\* ttl < original_ttl * 0.2; without one, False.
IsStale(k) ==
    IF meta[k].ttl > 0
    THEN LET original_ttl == int(meta[k].value)
         IN  entry[k].ttl > 0 /\ 5 * entry[k].ttl < original_ttl
    ELSE FALSE

\* cache_get_with_stale(key): a pipeline of get and ttl, then the get of the
\* meta key when there is a value.
cache_get_with_stale(k, c, o) ==
    LET g == get_redis_client(c)
        how == How(FALSE, g, o)
        present == entry[k].ttl > 0
    IN  /\ o # "payload_error"
        /\ redis_client' = ClientAfter(how, g)
        /\ c_last' = [Outcome("cache_get_with_stale", how,
                              Returned(how, IF present THEN "value" ELSE "None",
                                       "None"),
                              StoreCalls(how, g, IF present THEN 2 ELSE 1))
                      EXCEPT !.stale = how = "answered" /\ present /\ IsStale(k),
                             !.seen = entry[k]]
        /\ UNCHANGED <<entry, meta, blacklist>>
        /\ UNCHANGED bvars

\* cache_set_with_stale(key, value, ttl_seconds): a pipeline of two setex.
cache_set_with_stale(k, t, c, o) ==
    LET g == get_redis_client(c)
        how == How(FALSE, g, o)
    IN  /\ redis_client' = ClientAfter(how, g)
        /\ entry' = IF how = "answered"
                    THEN [entry EXCEPT ![k] = [ttl |-> t, orig |-> t,
                                               writer |-> "cache_set_with_stale"]]
                    ELSE entry
        /\ meta' = IF how = "answered"
                   THEN [meta EXCEPT ![k] = [ttl |-> t + MetaGrace,
                                             value |-> str(t)]]
                   ELSE meta
        /\ c_last' = Outcome("cache_set_with_stale", how,
                             Returned(how, "True", "False"),
                             StoreCalls(how, g, 1))
        /\ UNCHANGED blacklist
        /\ UNCHANGED bvars

Expire(e, d, none) == IF e.ttl > d THEN [e EXCEPT !.ttl = e.ttl - d] ELSE none

\* d seconds pass in the store: TTLs run down and expired keys disappear.
Elapse(d) ==
    /\ \/ blacklist > 0
       \/ \E k \in Keys : entry[k].ttl > 0 \/ meta[k].ttl > 0
    /\ entry' = [k \in Keys |-> Expire(entry[k], d, NoEntry)]
    /\ meta' = [k \in Keys |-> Expire(meta[k], d, NoMeta)]
    /\ blacklist' = IF blacklist > d THEN blacklist - d ELSE 0
    /\ UNCHANGED <<redis_client, c_last>>

\* ------------------------------------------------------ cached_with_stale
\* Mutant of ShouldRevalidate: the in-flight set is not consulted.
ShouldRevalidate_Unguarded(k, ttl) ==
    ttl > 0 /\ ttl < stale_ttl_seconds

\* ttl > 0 and ttl < stale_ttl_seconds and cache_key not in _revalidating
ShouldRevalidate(k, ttl) ==
    ttl > 0 /\ ttl < stale_ttl_seconds /\ k \notin revalidating

\* Mutant of Suspends: the caller of a hit that scheduled a refresh awaits it.
Suspends_AwaitsRefresh(result, go) == result = "None" \/ go

\* Whether wrapper suspends before it returns: on a miss, at `await func`;
\* after a hit it returns cached_value, the refresh being a task of its own.
Suspends(result, go) == result = "None"

\* wrapper(*args) up to its return or its `await func(...)`: cache_get, and
\* on a hit the TTL probe, the test of the in-flight set, its update and
\* create_task, with no suspension in between.
wrapper(p, k, c, o, probe) ==
    /\ sw_pc[p] = "idle"
    /\ probe \in {"ok"} \cup RedisError
    /\ cache_get(k, c, o)
    /\ LET result == c_last'.result
           ttl == entry[k].ttl
           go == result = "value" /\ probe = "ok" /\ ShouldRevalidate(k, ttl)
       IN  /\ revalidating' = IF go THEN revalidating \cup {k}
                              ELSE revalidating
           /\ tasks' = IF go
                       THEN [tasks EXCEPT ![k].scheduled = @ + 1]
                       ELSE tasks
           /\ sw_pc' = IF Suspends(result, go) THEN [sw_pc EXCEPT ![p] = k]
                       ELSE sw_pc
           /\ sw_last' = [op |-> CASE result = "value" -> "hit"
                                   [] result = "None" -> "miss"
                                   [] OTHER -> "raised",
                          key |-> k, ttl |-> ttl,
                          inflight |-> k \in revalidating,
                          scheduled |-> go,
                          open |-> state = OPEN,
                          caller |-> p,
                          returned |-> IF Suspends(result, go) THEN "pending"
                                       ELSE result]

\* wrapper(*args) from the return of `await func(...)` on a miss: the result
\* is cached with ttl_seconds + stale_ttl_seconds, or func's error propagates.
MissFinish(p, f, c, o) ==
    /\ sw_pc[p] # "idle"
    /\ sw_pc' = [sw_pc EXCEPT ![p] = "idle"]
    /\ IF f = "ok"
       THEN cache_set(sw_pc[p], ttl_seconds + stale_ttl_seconds, c, o)
       ELSE UNCHANGED cvars /\ UNCHANGED bvars
    /\ UNCHANGED <<revalidating, tasks, sw_last>>

\* The event loop starts a scheduled revalidate() task, which runs up to its
\* `await func(...)`.
RevalidateStart(k) ==
    /\ tasks[k].scheduled > 0
    /\ tasks' = [tasks EXCEPT ![k] = [scheduled |-> @.scheduled - 1,
                                      running |-> @.running + 1]]
    /\ UNCHANGED <<revalidating, sw_pc, sw_last>>
    /\ UNCHANGED cvars
    /\ UNCHANGED bvars

\* A scheduled revalidate() task is cancelled before the event loop ran its
\* first step: CancelledError is thrown into a coroutine that has not entered
\* its try block, so neither `except` nor `finally` runs.
RevalidateCancel(k) ==
    /\ tasks[k].scheduled > 0
    /\ tasks' = [tasks EXCEPT ![k].scheduled = @ - 1]
    /\ UNCHANGED <<revalidating, sw_pc, sw_last>>
    /\ UNCHANGED cvars
    /\ UNCHANGED bvars

\* revalidate() from the return of `await func(...)`: the result is cached
\* (or the error logged, or CancelledError passes through) and the key leaves
\* the in-flight set in the finally block.
RevalidateFinish(k, f, c, o) ==
    /\ tasks[k].running > 0
    /\ tasks' = [tasks EXCEPT ![k].running = @ - 1]
    /\ revalidating' = revalidating \ {k}
    /\ IF f = "ok"
       THEN cache_set(k, ttl_seconds + stale_ttl_seconds, c, o)
       ELSE UNCHANGED cvars /\ UNCHANGED bvars
    /\ UNCHANGED <<sw_pc, sw_last>>

\* What the decorated function does when awaited: it returns, raises an
\* Exception, or the awaiting task is cancelled (asyncio.CancelledError).
FuncOutcomes == {"ok", "error", "cancelled"}

\* --------------------------------------------------- the callers: Init
NoDelivery == [caller |-> 0, admitted |-> FALSE, outcome |-> "none",
               result |-> "none"]

\* No request, no fallback wrapper and no thread is active.
CallersIdle ==
    /\ token = [lifetime |-> MaxTtl, pc |-> "idle", logged_out |-> FALSE]
    /\ fallback_value = "None"
    /\ delivered = NoDelivery
    /\ threads = [t \in Callers |-> [pc |-> "idle", loaded |-> 0]]
    /\ recorded = 0

\* ------------------------------------------------------------ auth: logout
\* get_current_user, the dependency of every authenticated route and of
\* logout: is_token_blacklisted(token) under the default fail_closed=True,
\* 401 if it answers True, else the token is decoded (an expired token is
\* refused) and the request goes on.
get_current_user(c, o) ==
    /\ token.pc = "idle"
    /\ token.lifetime > 0
    /\ is_token_blacklisted(TRUE, c, o)
    /\ token' = [token EXCEPT !.pc = IF c_last'.result = "False"
                                     THEN "authenticated" ELSE "idle"]

\* An authenticated request other than logout is served.
Serve ==
    /\ token.pc = "authenticated"
    /\ token' = [token EXCEPT !.pc = "idle"]
    /\ UNCHANGED cvars
    /\ UNCHANGED bvars

\* logout, after its dependencies: ttl_seconds = int(exp - now),
\* blacklist_token(token, ttl_seconds) with its return value dropped, then
\* {"message": "Successfully logged out"}.
logout(c, o) ==
    /\ token.pc = "authenticated"
    /\ blacklist_token(token.lifetime, c, o)
    /\ token' = [token EXCEPT !.pc = "idle",
                              !.logged_out = @ \/ c_last'.result # "raised"]

\* create_access_token: a login issues a new token that expires after
\* `lifetime` seconds; the session goes on with it, and the store holds no
\* blacklist key for it.
create_access_token(lifetime) ==
    /\ token.pc = "idle"
    /\ token' = [lifetime |-> lifetime, pc |-> "idle", logged_out |-> FALSE]
    /\ blacklist' = 0
    /\ UNCHANGED <<redis_client, entry, meta, c_last>>
    /\ UNCHANGED bvars

\* One second passes: the token is a second nearer to exp and the TTL of
\* its blacklist key runs down.
Age ==
    /\ token.lifetime > 0
    /\ token' = [token EXCEPT !.lifetime = @ - 1]
    /\ blacklist' = IF blacklist > 1 THEN blacklist - 1 ELSE 0
    /\ UNCHANGED <<redis_client, entry, meta, c_last>>
    /\ UNCHANGED bvars

\* ------------------------------------------------------ fallback wrappers
\* fallback_value: Any = None
FallbackValues == {"None", "v"}

\* What an operation wrapped by with_circuit_breaker can do: what any wrapped
\* operation can, or raise CircuitBreakerError itself (a protected call made
\* inside it was rejected by its own breaker).
FallbackOutcomes == Outcomes \cup {"CircuitBreakerError"}

\* CircuitBreakerError is an Exception: the breaker records it as any other
\* member of expected_exceptions.
AsRecorded(o) == IF o = "CircuitBreakerError" THEN "transient" ELSE o

\* except CircuitBreakerError: the fallback if it is not None, else re-raise.
OnBreakerError ==
    IF fallback_value # "None" THEN fallback_value ELSE "CircuitBreakerError"

\* with_circuit_breaker.wrapper up to the first suspension of func: the
\* breaker's admission check; a rejection is caught at once.
FallbackCall(p) ==
    /\ WrapperCall(p)
    /\ delivered' = IF ShouldAllowRequest THEN delivered
                    ELSE [caller |-> p, admitted |-> FALSE,
                          outcome |-> "none", result |-> OnBreakerError]
    /\ UNCHANGED fallback_value

\* with_circuit_breaker.wrapper from the completion of func: the breaker
\* records the outcome, and whatever leaves `await wrapped(...)` passes the
\* handler of CircuitBreakerError.
FallbackFinish(p, o) ==
    /\ WrapperFinish(p, AsRecorded(o))
    /\ delivered' = [caller |-> p, admitted |-> TRUE, outcome |-> o,
                     result |-> IF o = "CircuitBreakerError"
                                THEN OnBreakerError ELSE o]
    /\ UNCHANGED fallback_value

\* sync_with_circuit_breaker.wrapper: a rejection returns the fallback or
\* raises CircuitBreakerError before the try block; what func returns or
\* raises leaves the wrapper as it is.
SyncFallbackCall(o) ==
    /\ SyncCall(AsRecorded(o))
    /\ delivered' = IF state = OPEN /\ ~TimedOut
                    THEN [caller |-> 0, admitted |-> FALSE,
                          outcome |-> "none", result |-> OnBreakerError]
                    ELSE [caller |-> 0, admitted |-> TRUE, outcome |-> o,
                          result |-> o]
    /\ UNCHANGED fallback_value

\* ------------------------------------- sync wrapper called from threads
\* How an operation on the breaker changes the number of failures recorded
\* since the last recorded success or reset.
Counted(op) ==
    CASE op \in {"success", "sync_success", "reset"} -> 0
      [] op \in {"failure", "sync_failure"} -> recorded + 1
      [] OTHER -> recorded

\* sync_with_circuit_breaker.wrapper in thread t, from the admission check to
\* the read of breaker._failure_count in `breaker._failure_count += 1`: no
\* lock is held, so another thread can run before the incremented value is
\* stored.
SyncFailureLoad(t) ==
    /\ threads[t].pc = "idle"
    /\ ~(state = OPEN /\ ~TimedOut)
    /\ call_count < MaxCalls
    /\ call_count' = call_count + 1
    /\ state' = SyncStateAfterCheck
    /\ threads' = [threads EXCEPT ![t] = [pc |-> "store",
                                          loaded |-> failure_count]]
    /\ streak' = -1
    /\ last' = Note("sync_load")
    /\ UNCHANGED <<failure_count, last_failure_time, now, pc, cache_pc,
                   trial, recorded>>
    /\ ConfigUnchanged

\* The rest of the failure handler in thread t: the incremented count is
\* stored, then _last_failure_time and _state are set.
SyncFailureStore(t) ==
    /\ threads[t].pc = "store"
    /\ failure_count' = threads[t].loaded + 1
    /\ last_failure_time' = now
    /\ state' = FailureState(state, failure_count')
    /\ threads' = [threads EXCEPT ![t] = [pc |-> "idle", loaded |-> 0]]
    /\ recorded' = Counted("sync_failure")
    /\ last' = Note("sync_failure")
    /\ UNCHANGED <<now, pc, call_count, cache_pc, trial, streak>>
    /\ ConfigUnchanged

\* ------------------------------------------------------- specifications
\* The breaker under every code path that changes it.
Init ==
    /\ BreakerInit
    /\ RetryIdle
    /\ variant = "none"
    /\ CacheInit
    /\ StaleInit
    /\ CallersIdle

Next ==
    \/ Tick /\ UNCHANGED <<rvars, dvars, cvars, swvars, xvars>>
    \/ (\E p \in Callers : WrapperCall(p)) /\ UNCHANGED <<rvars, dvars, cvars, swvars, xvars>>
    \/ (\E p \in Callers, o \in Outcomes : WrapperFinish(p, o)) /\ UNCHANGED <<rvars, dvars, cvars, swvars, xvars>>
    \/ Reset /\ UNCHANGED <<rvars, dvars, cvars, swvars, xvars>>
    \/ (\E o \in Outcomes : SyncCall(o)) /\ UNCHANGED <<rvars, dvars, cvars, swvars, xvars>>
    \/ (\E o \in StoreOutcomes : CacheGet(o)) /\ UNCHANGED <<rvars, dvars, cvars, swvars, xvars>>
    \/ (\E o \in StoreOutcomes : CacheSet(o)) /\ UNCHANGED <<rvars, dvars, cvars, swvars, xvars>>
    \/ (\E o \in StoreOutcomes : CacheDelete(o)) /\ UNCHANGED <<rvars, dvars, cvars, swvars, xvars>>
    \/ CacheWriteTime /\ UNCHANGED <<rvars, dvars, cvars, swvars, xvars>>

Spec == Init /\ [][Next]_vars

\* The breaker under concurrent calls of the async wrapper alone.
WrapperNext ==
    \/ Tick /\ UNCHANGED <<rvars, dvars, cvars, swvars, xvars>>
    \/ (\E p \in Callers : WrapperCall(p)) /\ UNCHANGED <<rvars, dvars, cvars, swvars, xvars>>
    \/ (\E p \in Callers, o \in Outcomes : WrapperFinish(p, o)) /\ UNCHANGED <<rvars, dvars, cvars, swvars, xvars>>

SpecWrapper == Init /\ [][WrapperNext]_vars

\* A breaker that no action of the specification touches.
BreakerQuiet ==
    /\ state = CLOSED
    /\ failure_count = 0
    /\ last_failure_time = None
    /\ failure_threshold = 1
    /\ recovery_timeout = 1
    /\ now = 1
    /\ pc = [p \in Callers |-> "idle"]
    /\ call_count = 0
    /\ cache_pc = "idle"
    /\ trial = [p \in Callers |-> "no"]
    /\ streak = 0
    /\ last = [op |-> "init", st |-> CLOSED, fc |-> 0]

\* One call of a function decorated with retry_with_backoff.
RetryStart ==
    /\ state = CLOSED
    /\ failure_count = 0
    /\ last_failure_time = None
    /\ failure_threshold = 1
    /\ recovery_timeout = 1
    /\ now = 1
    /\ pc = [p \in Callers |-> "idle"]
    /\ call_count = 0
    /\ cache_pc = "idle"
    /\ trial = [p \in Callers |-> "no"]
    /\ streak = 0
    /\ last = [op |-> "init", st |-> CLOSED, fc |-> 0]
    /\ RetryInit
    /\ variant = "retry_with_backoff"
    /\ CacheInit
    /\ StaleInit
    /\ CallersIdle

RetryNext ==
    \/ RetryReturn /\ UNCHANGED <<bvars, dvars, cvars, swvars, xvars>>
    \/ RetryFatal /\ UNCHANGED <<bvars, dvars, cvars, swvars, xvars>>
    \/ (\E cb \in CallbackOutcomes : RetryFailure(cb)) /\ UNCHANGED <<bvars, dvars, cvars, swvars, xvars>>
    \/ RetryWake /\ UNCHANGED <<bvars, dvars, cvars, swvars, xvars>>

SpecRetry == RetryStart /\ [][RetryNext]_vars

\* One call of any of the five retrying functions.
BackoffStart ==
    /\ BreakerQuiet
    /\ (variant = "retry_with_backoff" /\ RetryInit) \/ DbRetryInit
    /\ CacheInit
    /\ StaleInit
    /\ CallersIdle

BackoffNext ==
    \/ variant = "retry_with_backoff" /\ RetryNext
    \/ DbReturn /\ UNCHANGED <<bvars, cvars, swvars, xvars>>
    \/ (\E e \in DbErrors : DbRaise(e)) /\ UNCHANGED <<bvars, cvars, swvars, xvars>>
    \/ (\E e \in DbErrors : DbTransient(e)) /\ UNCHANGED <<bvars, cvars, swvars, xvars>>
    \/ DbWake /\ UNCHANGED <<bvars, cvars, swvars, xvars>>

SpecBackoff == BackoffStart /\ [][BackoffNext]_vars

\* The cache service starts with no client, an empty store and the redis
\* breaker Closed.
CacheStart ==
    /\ BreakerQuiet
    /\ RetryIdle
    /\ variant = "none"
    /\ CacheInit
    /\ StaleInit
    /\ CallersIdle

\* The key the cache functions are called with where one key is enough.
StaleKey == "stats:1"

\* The outcomes of creating a client that matter: none once a client exists.
ClientChoices == IF redis_client = "none" THEN ClientOutcomes ELSE {"ok"}

\* Every cache function under every outcome of the client's creation and of
\* the command, with the breaker they share.
CacheNext ==
    \/ (\E k \in {StaleKey}, c \in ClientChoices, o \in CommandOutcomes :
            cache_get(k, c, o)) /\ UNCHANGED <<rvars, dvars, swvars, xvars>>
    \/ (\E k \in {StaleKey}, c \in ClientChoices, o \in CommandOutcomes :
            cache_set(k, MaxTtl, c, o)) /\ UNCHANGED <<rvars, dvars, swvars, xvars>>
    \/ (\E k \in {StaleKey}, c \in ClientChoices, o \in CommandOutcomes :
            cache_delete(k, c, o)) /\ UNCHANGED <<rvars, dvars, swvars, xvars>>
    \/ (\E c \in ClientChoices, o \in CommandOutcomes :
            cache_delete_pattern(c, o)) /\ UNCHANGED <<rvars, dvars, swvars, xvars>>
    \/ (\E k \in {StaleKey}, c \in ClientChoices, o \in CommandOutcomes :
            cache_exists(k, c, o)) /\ UNCHANGED <<rvars, dvars, swvars, xvars>>
    \/ (\E t \in {0, MaxTtl}, c \in ClientChoices, o \in CommandOutcomes :
            blacklist_token(t, c, o)) /\ UNCHANGED <<rvars, dvars, swvars, xvars>>
    \/ (\E f \in BOOLEAN, c \in ClientChoices, o \in CommandOutcomes :
            is_token_blacklisted(f, c, o)) /\ UNCHANGED <<rvars, dvars, swvars, xvars>>
    \/ (\E k \in {StaleKey}, c \in ClientChoices, o \in CommandOutcomes :
            cache_get_with_stale(k, c, o)) /\ UNCHANGED <<rvars, dvars, swvars, xvars>>
    \/ (\E k \in {StaleKey}, c \in ClientChoices, o \in CommandOutcomes :
            cache_set_with_stale(k, MaxTtl, c, o)) /\ UNCHANGED <<rvars, dvars, swvars, xvars>>
    \/ CacheWriteTime /\ UNCHANGED <<rvars, dvars, cvars, swvars, xvars>>
    \/ Reset /\ UNCHANGED <<rvars, dvars, cvars, swvars, xvars>>

SpecCache == CacheStart /\ [][CacheNext]_vars

\* One key written by cache_set and cache_set_with_stale and read by
\* cache_get_with_stale while its TTL runs down, the store answering.
StaleNext ==
    \/ (\E t \in Ttls : cache_set(StaleKey, t, "ok", "ok")) /\ UNCHANGED <<rvars, dvars, swvars, xvars>>
    \/ (\E t \in Ttls : cache_set_with_stale(StaleKey, t, "ok", "ok")) /\ UNCHANGED <<rvars, dvars, swvars, xvars>>
    \/ cache_get_with_stale(StaleKey, "ok", "ok") /\ UNCHANGED <<rvars, dvars, swvars, xvars>>
    \/ (\E d \in {1, MetaGrace} : Elapse(d)) /\ UNCHANGED <<bvars, rvars, dvars, swvars, xvars>>

SpecStale == CacheStart /\ [][StaleNext]_vars

\* Concurrent calls of one cached_with_stale-decorated function over a cache
\* that holds entries it wrote earlier, the store answering.
RevalidateStartState ==
    /\ BreakerQuiet
    /\ RetryIdle
    /\ variant = "none"
    /\ redis_client = "client"
    /\ entry \in [Keys -> {NoEntry} \cup
                    {[ttl |-> t, orig |-> ttl_seconds + stale_ttl_seconds,
                      writer |-> "cache_set"] :
                        t \in 1..(ttl_seconds + stale_ttl_seconds)}]
    /\ meta = [k \in Keys |-> NoMeta]
    /\ blacklist = 0
    /\ c_last = [op |-> "none", how |-> "none", result |-> "none",
                 open |-> FALSE, store_calls |-> 0, fail_closed |-> FALSE,
                 found |-> FALSE, stale |-> FALSE, seen |-> NoEntry]
    /\ StaleInit
    /\ CallersIdle

RevalidateNext ==
    \/ (\E p \in Callers, k \in Keys, probe \in {"ok", "timeout_error"} :
            wrapper(p, k, "ok", "ok", probe)) /\ UNCHANGED <<rvars, dvars, xvars>>
    \/ (\E p \in Callers, f \in FuncOutcomes : MissFinish(p, f, "ok", "ok")) /\ UNCHANGED <<rvars, dvars, xvars>>
    \/ (\E k \in Keys : RevalidateStart(k)) /\ UNCHANGED <<rvars, dvars, xvars>>
    \/ (\E k \in Keys : RevalidateCancel(k)) /\ UNCHANGED <<rvars, dvars, xvars>>
    \/ (\E k \in Keys, f \in FuncOutcomes : RevalidateFinish(k, f, "ok", "ok")) /\ UNCHANGED <<rvars, dvars, xvars>>
    \/ Elapse(1) /\ UNCHANGED <<bvars, rvars, dvars, swvars, xvars>>

SpecRevalidate == RevalidateStartState /\ [][RevalidateNext]_vars

\* The redis breaker as the application drives it: through cache_get,
\* cache_set and cache_delete alone, which keep being called while the clock
\* runs; nothing else in the application calls, wraps or resets it.
RedisGet == (\E o \in StoreOutcomes : CacheGet(o)) /\ UNCHANGED <<rvars, dvars, cvars, swvars, xvars>>
RedisSet == (\E o \in StoreOutcomes : CacheSet(o)) /\ UNCHANGED <<rvars, dvars, cvars, swvars, xvars>>
RedisDelete == (\E o \in StoreOutcomes : CacheDelete(o)) /\ UNCHANGED <<rvars, dvars, cvars, swvars, xvars>>
RedisWriteTime == CacheWriteTime /\ UNCHANGED <<rvars, dvars, cvars, swvars, xvars>>
RedisTick == Tick /\ UNCHANGED <<rvars, dvars, cvars, swvars, xvars>>

RedisNext ==
    \/ RedisGet
    \/ RedisSet
    \/ RedisDelete
    \/ RedisWriteTime
    \/ RedisTick

SpecRedis ==
    /\ Init
    /\ [][RedisNext]_vars
    /\ WF_vars(RedisGet)
    /\ WF_vars(RedisSet)
    /\ WF_vars(RedisDelete)
    /\ WF_vars(RedisWriteTime)
    /\ WF_vars(RedisTick)

\* One access token used in requests and in logout while the store comes
\* and goes and the token runs towards its expiry.
LogoutStart ==
    /\ BreakerQuiet
    /\ RetryIdle
    /\ variant = "none"
    /\ CacheInit
    /\ StaleInit
    /\ token \in [lifetime : 1..MaxTtl, pc : {"idle"}, logged_out : {FALSE}]
    /\ fallback_value = "None"
    /\ delivered = NoDelivery
    /\ threads = [t \in Callers |-> [pc |-> "idle", loaded |-> 0]]
    /\ recorded = 0

LogoutNext ==
    \/ (\E c \in ClientChoices, o \in {"ok"} \cup RedisError :
            get_current_user(c, o)) /\ UNCHANGED <<rvars, dvars, swvars, fvars, tvars>>
    \/ Serve /\ UNCHANGED <<rvars, dvars, swvars, fvars, tvars>>
    \/ (\E c \in ClientChoices, o \in {"ok"} \cup RedisError :
            logout(c, o)) /\ UNCHANGED <<rvars, dvars, swvars, fvars, tvars>>
    \/ Age /\ UNCHANGED <<rvars, dvars, swvars, fvars, tvars>>
    \/ (\E t \in Ttls : create_access_token(t)) /\ UNCHANGED <<rvars, dvars, swvars, fvars, tvars>>

SpecLogout == LogoutStart /\ [][LogoutNext]_vars

\* One breaker behind with_circuit_breaker and sync_with_circuit_breaker,
\* with and without a fallback value.
FallbackStart ==
    /\ BreakerInit
    /\ RetryIdle
    /\ variant = "none"
    /\ CacheInit
    /\ StaleInit
    /\ token = [lifetime |-> MaxTtl, pc |-> "idle", logged_out |-> FALSE]
    /\ fallback_value \in FallbackValues
    /\ delivered = NoDelivery
    /\ threads = [t \in Callers |-> [pc |-> "idle", loaded |-> 0]]
    /\ recorded = 0

FallbackNext ==
    \/ Tick /\ UNCHANGED <<rvars, dvars, cvars, swvars, xvars>>
    \/ (\E p \in Callers : FallbackCall(p)) /\ UNCHANGED <<rvars, dvars, cvars, swvars, avars, tvars>>
    \/ (\E p \in Callers, o \in FallbackOutcomes : FallbackFinish(p, o)) /\ UNCHANGED <<rvars, dvars, cvars, swvars, avars, tvars>>
    \/ (\E o \in FallbackOutcomes : SyncFallbackCall(o)) /\ UNCHANGED <<rvars, dvars, cvars, swvars, avars, tvars>>

SpecFallback == FallbackStart /\ [][FallbackNext]_vars

\* One breaker used through sync_with_circuit_breaker from several threads,
\* through the async wrapper on the event loop, and reset.
ThreadsNext ==
    \/ Tick /\ UNCHANGED <<rvars, dvars, cvars, swvars, xvars>>
    \/ (\E t \in Callers : SyncFailureLoad(t)) /\ UNCHANGED <<rvars, dvars, cvars, swvars, avars, fvars>>
    \/ (\E t \in Callers : SyncFailureStore(t)) /\ UNCHANGED <<rvars, dvars, cvars, swvars, avars, fvars>>
    \/ (\E o \in Outcomes : SyncCall(o) /\ recorded' = Counted(last'.op))
         /\ UNCHANGED <<threads, rvars, dvars, cvars, swvars, avars, fvars>>
    \/ (\E p \in Callers : WrapperCall(p)) /\ UNCHANGED <<rvars, dvars, cvars, swvars, xvars>>
    \/ (\E p \in Callers, o \in Outcomes : WrapperFinish(p, o) /\ recorded' = Counted(last'.op))
         /\ UNCHANGED <<threads, rvars, dvars, cvars, swvars, avars, fvars>>
    \/ (Reset /\ recorded' = Counted(last'.op))
         /\ UNCHANGED <<threads, rvars, dvars, cvars, swvars, avars, fvars>>

SpecThreads == Init /\ [][ThreadsNext]_vars

\* ---------------------------------------------------------------- claims
\* C1: starting Closed with failureCount 0, the k-th failing call in a row
\* through the wrapper (no success, reset or other recording in between)
\* leaves the breaker Open if k >= failure_threshold and Closed if k is
\* smaller; while fewer than failure_threshold have been recorded it stays
\* Closed.
C1_OpensAtThreshold ==
    /\ [](streak \in 0..(failure_threshold - 1) => state = CLOSED)
    /\ [][(streak >= 0 /\ streak' = streak + 1) =>
            state' = (IF streak' >= failure_threshold THEN OPEN ELSE CLOSED)]_vars

C1_Witness ==
    /\ failure_threshold >= 2
    /\ streak = failure_threshold
    /\ last.op = "failure"
    /\ state = OPEN

\* C2: while the breaker is Open and less than recovery_timeout has passed
\* since last_failure_time, a call through the wrapper raises
\* CircuitBreakerError, the operation is not invoked, and state, count and
\* last failure time stay as they were.
C2_OpenRejects ==
    [][\A p \in Callers :
        ( /\ state = OPEN
          /\ last_failure_time # None
          /\ now - last_failure_time < recovery_timeout
          /\ WrapperCall(p) )
        => ( /\ last'.op = "reject"
             /\ pc'[p] = "idle"
             /\ call_count' = call_count
             /\ UNCHANGED <<state, failure_count, last_failure_time>> )]_vars

C2_Witness ==
    /\ last.op = "reject"
    /\ state = OPEN
    /\ last_failure_time # None
    /\ now - last_failure_time < recovery_timeout

\* C3: an Open breaker whose recovery_timeout has passed admits the next call
\* and becomes HalfOpen; when that call succeeds the breaker is Closed with
\* count 0, and when it fails the breaker is Open with last_failure_time set
\* to the time of the failure.
C3_TrialDecides ==
    [][\A p \in Callers :
        /\ ( /\ state = OPEN
              /\ last_failure_time # None
              /\ now - last_failure_time >= recovery_timeout
              /\ WrapperCall(p) )
             => (pc'[p] = "running" /\ state' = HALF_OPEN)
        /\ (trial[p] = "opened" /\ WrapperFinish(p, "ok"))
             => (state' = CLOSED /\ failure_count' = 0)
        /\ (trial[p] = "opened" /\ \E o \in expected_exceptions : WrapperFinish(p, o))
             => (state' = OPEN /\ last_failure_time' = now)]_vars

\* C4: at no time are two admitted calls in flight as HalfOpen trials.
C4_SingleTrial ==
    Cardinality({p \in Callers : pc[p] = "running" /\ trial[p] # "no"}) <= 1

\* C5: a successful call through the wrapper leaves the count 0, whatever the
\* count was; one that finds the breaker Closed leaves it Closed, and the run
\* of failures that can open the breaker starts again from 0: the count is
\* the number of failures since.
C5_SuccessResetsCount ==
    /\ last.op = "success" => failure_count = 0
    /\ (last.op = "success" /\ last.st = CLOSED) => (state = CLOSED /\ streak = 0)
    /\ streak >= 0 => failure_count = streak

C5_Witness ==
    /\ last.op = "success"
    /\ last.st = CLOSED
    /\ last.fc > 0
    /\ failure_count = 0

\* C6: right after reset(), whatever state it found, the breaker is Closed
\* with count 0 and no last failure time, and a call would be admitted.
C6_ResetCloses ==
    last.op = "reset" =>
        /\ state = CLOSED
        /\ failure_count = 0
        /\ last_failure_time = None
        /\ ShouldAllowRequest

C6_Witness ==
    /\ last.op = "reset"
    /\ last.st = OPEN
    /\ last.fc >= failure_threshold
    /\ state = CLOSED

\* C7: in every reachable state, failure_count >= failure_threshold implies
\* that the breaker is not Closed.
C7_ThresholdNotClosed ==
    failure_count >= failure_threshold => state # CLOSED

\* C8: in every reachable state, between the writes of a code path included,
\* an Open breaker has its last failure time set.
C8_OpenHasTime ==
    state = OPEN => last_failure_time # None

AllRetryable(os) == os # <<>> /\ \A i \in DOMAIN os : os[i] = "retryable"

\* C9: func is invoked at most max_retries + 1 times; exactly max_retries + 1
\* times when every attempt fails with a retryable error; and exactly once,
\* with no callback and no delay, when the first attempt raises an error
\* outside the retryable set.
C9_InvocationCount ==
    /\ invocations <= max_retries + 1
    /\ (r_pc = "done" /\ AllRetryable(outcomes)) => invocations = max_retries + 1
    /\ (r_pc = "done" /\ outcomes[1] = "fatal")
         => (invocations = 1 /\ retry_calls = <<>> /\ delays = <<>>)

\* C10: when all max_retries + 1 attempts failed with retryable errors, the
\* caller receives the error raised by the last attempt, unchanged.
C10_LastErrorPropagates ==
    (r_pc = "done" /\ invocations = max_retries + 1 /\ AllRetryable(outcomes))
        => r_result = [kind |-> "raised",
                       error |-> ErrorOf(max_retries, "retryable")]

C10_Witness ==
    /\ r_pc = "done"
    /\ max_retries >= 2
    /\ invocations = max_retries + 1
    /\ AllRetryable(outcomes)
    /\ r_result.kind = "raised"

\* The first k invocations raised a retryable error and the next one returned.
SucceedsAfter(os, k) ==
    /\ Len(os) = k + 1
    /\ os[k + 1] = "ok"
    /\ \A i \in 1..k : os[i] = "retryable"

\* C11: retry_with_backoff returns the result of the first attempt that does
\* not raise a retryable error and invokes func no further: when func fails
\* k <= max_retries times and then succeeds, it has been invoked exactly k + 1
\* times, the call is over and the caller has the result of attempt k.
C11_FirstSuccessReturns ==
    /\ r_result.kind = "returned"
         => /\ r_pc = "done"
            /\ SucceedsAfter(outcomes, r_result.attempt)
    /\ \A k \in 0..max_retries :
         SucceedsAfter(outcomes, k)
           => /\ r_pc = "done"
              /\ invocations = k + 1
              /\ r_result = [kind |-> "returned", attempt |-> k]

C11_Witness ==
    /\ r_pc = "done"
    /\ SucceedsAfter(outcomes, 2)
    /\ max_retries = 3
    /\ invocations = 3

\* C12: the delay slept after failed attempt i (0-based) is
\* min(base_delay * exponential_base^i, max_delay), in retry_with_backoff and
\* in the functions that sleep RetryConfig.get_delay(i); so with
\* exponential_base >= 1 the delays never decrease and never exceed max_delay.
C12_DelaySchedule ==
    /\ \A i \in 1..Len(delays) :
         delays[i] = Min(base_delay * Pow(exponential_base, i - 1), max_delay)
    /\ \A i \in 0..MaxRetries :
         get_delay(i) = Min(base_delay * Pow(exponential_base, i), max_delay)
    /\ exponential_base >= 1
         => /\ \A i \in 1..Len(delays) : delays[i] <= max_delay
            /\ \A i \in 2..Len(delays) : delays[i - 1] <= delays[i]
            /\ \A i \in 0..MaxRetries :
                 get_delay(i) <= get_delay(i + 1) /\ get_delay(i) <= max_delay

C12_Witness ==
    /\ variant = "retry_with_backoff"
    /\ Len(delays) = 3
    /\ delays[1] < delays[2]
    /\ delays[3] = max_delay
    /\ base_delay * Pow(exponential_base, 2) > max_delay

\* What the caller of retry_with_backoff receives for the outcomes os of the
\* invocations when no callback is supplied.
ResultWithoutCallback(os) ==
    LET n == Len(os)
    IN  IF os[n] = "ok"
        THEN [kind |-> "returned", attempt |-> n - 1]
        ELSE [kind |-> "raised", error |-> ErrorOf(n - 1, os[n])]

\* C13: the on_retry callback does not affect control flow: whatever it does,
\* a finished call has made the invocations and delays, and delivers the
\* result or error, that the same outcomes of func give with no callback.
C13_CallbackNoEffect ==
    r_pc = "done"
      => /\ outcomes[Len(outcomes)] = "retryable" => invocations = max_retries + 1
         /\ Len(delays) = invocations - 1
         /\ r_result = ResultWithoutCallback(outcomes)

\* C14: between two consecutive invocations there is exactly one on_retry call
\* (if a callback is supplied; its argument is the 1-based number of the
\* attempt that failed) followed by exactly one delay, and nothing follows
\* the final invocation: a finished call has made invocations - 1 callbacks
\* and delays, and with max_retries = 0 one attempt, no callback, no delay.
C14_CallbackThenDelay ==
    /\ \A i \in 1..Len(retry_calls) : retry_calls[i] = i
    /\ ~on_retry => retry_calls = <<>>
    /\ r_pc = "ready"
         => /\ Len(delays) = invocations
            /\ on_retry => Len(retry_calls) = invocations
    /\ r_pc = "sleeping"
         => /\ Len(delays) = invocations - 1
            /\ on_retry => Len(retry_calls) = invocations
    /\ r_pc = "done"
         => /\ Len(delays) = invocations - 1
            /\ on_retry => Len(retry_calls) = invocations - 1
    /\ (r_pc = "done" /\ max_retries = 0)
         => (invocations = 1 /\ retry_calls = <<>> /\ delays = <<>>)

C16_StoreFailureContained ==
    ( /\ c_last.op \in {"cache_get", "cache_set", "cache_delete",
                        "cache_delete_pattern"}
      /\ c_last.how \in {"client_raised", "no_client", "command_raised"} )
      => c_last.result = ( CASE c_last.op = "cache_get" -> "None"
                             [] c_last.op = "cache_delete_pattern" -> "0"
                             [] OTHER -> "False" )

\* C17: a cache function called while the redis breaker is Open makes no call
\* to the backing store.
C17_OpenMeansNoStoreCall ==
    c_last.open => c_last.store_calls = 0

C19_StaleByTtlFraction ==
    ( /\ c_last.op = "cache_get_with_stale"
      /\ c_last.how = "answered"
      /\ c_last.seen.ttl > 0 )
      => /\ c_last.result = "value"
         /\ 5 * c_last.seen.ttl < c_last.seen.orig => c_last.stale
         /\ 5 * c_last.seen.ttl > c_last.seen.orig => ~c_last.stale

\* C20: under any interleaving of calls of one decorated function, at most
\* one refresh task per key is scheduled or running at any time, and the
\* in-flight set holds its key.
C20_OneRevalidationPerKey ==
    \A k \in Keys :
        /\ tasks[k].scheduled + tasks[k].running <= 1
        /\ tasks[k].scheduled + tasks[k].running = 1 => k \in revalidating

C20_Witness ==
    /\ sw_last.op = "hit"
    /\ sw_last.ttl > 0
    /\ sw_last.ttl < stale_ttl_seconds
    /\ sw_last.inflight
    /\ ~sw_last.scheduled
    /\ tasks[sw_last.key].scheduled + tasks[sw_last.key].running = 1

\* C24: a permanent error raised by a protected call (a constraint violation,
\* malformed or non-serializable data, an auth rejection) is not recorded
\* against the breaker: the step that delivers it leaves state, failure_count
\* and last_failure_time as they were, through the wrapper of a configured
\* breaker and through cache_set on the redis breaker.
C24_PermanentNotRecorded ==
    [][/\ \A p \in Callers :
            WrapperFinish(p, "permanent")
                => UNCHANGED <<state, failure_count, last_failure_time>>
       /\ CacheSet("payload_error")
            => UNCHANGED <<state, failure_count, last_failure_time>>]_vars

\* C25: a cache_get, cache_set or cache_delete that reaches the store updates
\* the redis breaker as _record_success does when the store succeeds and as
\* _record_failure does when the store raises.
C25_CacheRecordsAsBreaker ==
    [][\A o \in {"ok", "redis_error"} :
         ( /\ \/ CacheGet(o)
              \/ CacheSet(o)
              \/ CacheDelete(o)
           /\ call_count' = call_count + 1 )
           => IF o = "ok" THEN RecordSuccess ELSE RecordFailure]_vars

\* C27: every admitted call records an outcome before it is delivered, so no
\* delivery goes unrecorded and a HalfOpen breaker always has a call in
\* flight.
C27_AdmittedCallRecorded ==
    /\ last.op # "unrecorded"
    /\ state = HALF_OPEN => \E p \in Callers : pc[p] = "running"

\* C28: the breaker moves from HalfOpen to Closed only on the success of a
\* call admitted as a trial (one that moved the breaker to HalfOpen or was
\* admitted while it was HalfOpen), never on the success of a call admitted
\* before the breaker opened.
C28_OnlyTrialCloses ==
    [][\A p \in Callers :
         ( /\ state = HALF_OPEN
           /\ WrapperFinish(p, "ok")
           /\ state' = CLOSED )
           => trial[p] # "no"]_vars

\* C21: a call that hits an entry whose remaining TTL t has 0 < t <
\* stale_ttl_seconds has returned the cached value as soon as the wrapper's
\* synchronous stretch ends: the caller is not suspended while the refresh is
\* scheduled, running, finished, failed or cancelled, and what it was given
\* stays the cached value.
C21_StaleHitReturnsAtOnce ==
    ( /\ sw_last.op = "hit"
      /\ sw_last.ttl > 0
      /\ sw_last.ttl < stale_ttl_seconds )
      => /\ sw_pc[sw_last.caller] = "idle"
         /\ sw_last.returned = "value"

\* The refresh scheduled by the hit has ended without writing the entry (it
\* raised or was cancelled) and the caller holds the cached value.
C21_Witness ==
    /\ sw_last.op = "hit"
    /\ sw_last.scheduled
    /\ sw_last.returned = "value"
    /\ tasks[sw_last.key] = NoTasks
    /\ sw_last.key \notin revalidating
    /\ entry[sw_last.key].ttl = sw_last.ttl
    /\ entry[sw_last.key].orig = ttl_seconds + stale_ttl_seconds

\* C29: in every reachable state the in-flight set contains a key only if a
\* refresh task for that key is scheduled or running, whether earlier
\* refreshes succeeded, raised or were cancelled.
C29_InFlightHasTask ==
    \A k \in Keys :
        k \in revalidating => tasks[k].scheduled + tasks[k].running >= 1

\* C26: once cache operations have opened the redis breaker and
\* recovery_timeout has elapsed since last_failure_time, cache operations
\* that keep being called eventually get one call admitted: the breaker
\* leaves Open.
C26_OpenIsLeft ==
    (state = OPEN /\ TimedOut) ~> (state # OPEN)

\* C22: through a wrapper with a fallback value v the caller gets v exactly
\* when the breaker rejected the call; a call the breaker admitted hands the
\* caller the operation's own result or exception; without a fallback a
\* rejected call raises CircuitBreakerError.
C22_FallbackOnlyOnRejection ==
    delivered # NoDelivery =>
        /\ fallback_value # "None"
             => (delivered.result = fallback_value <=> ~delivered.admitted)
        /\ delivered.admitted => delivered.result = delivered.outcome
        /\ (fallback_value = "None" /\ ~delivered.admitted)
             => delivered.result = "CircuitBreakerError"

\* C23: no update of failure_count is lost under concurrent use of the
\* breaker: whenever no thread is inside a failure handler, failure_count is
\* the number of failures recorded since the last recorded success or reset.
C23_NoLostUpdate ==
    (\A t \in Callers : threads[t].pc = "idle") => failure_count = recorded

\* C30: once logout has returned success for a token, no
\* is_token_blacklisted call made while the token has lifetime left answers
\* False, whatever the store did before, during and after the logout: the
\* revoked token is not accepted again.
C30_RevokedStaysRevoked ==
    ( /\ token.logged_out
      /\ token.lifetime > 0
      /\ c_last.op = "is_token_blacklisted" )
      => c_last.result # "False"
====
